---- MODULE Spec2Model ----
(***************************************************************************)
(* Model of the autonomous task-scheduling and lead-qualification loop of  *)
(* ai-empire-automation: the lead scorer, the error recovery counters, the *)
(* cycle methods, the agents' execute_task and the job schedule.           *)
(*                                                                         *)
(* Strings are sequences of one-character strings, so that lower(),        *)
(* substring search, split("-"), int() and the [:50] slice are computed.   *)
(* Scores are integers in hundredths (0.35 is 35).                         *)
(***************************************************************************)
EXTENDS Integers, Sequences, FiniteSets, TLC

VARIABLES
    lead,               \* the lead dict handed to calculate_lead_score
    score,              \* what calculate_lead_score did with it
    recovery_attempts,  \* AutoErrorRecovery.recovery_attempts: key -> count
    inv,                \* in-flight invocations of _autonomous_revenue_cycle
    alerts,             \* alerts the alerting collaborator received, in order
    failures,           \* history: error message -> failures handled so far
    entry,              \* where start_autonomous_operation is
    cycles,             \* the coroutines handed to asyncio.gather
    jobs,               \* the registered jobs: job -> [last_run]
    spawned,            \* tasks each job created in the latest run_pending
    last_check,         \* time of the latest run_pending, -1 before the first
    now,                \* wall clock, in units of TimeUnitMinutes
    agent_status,       \* agent -> its status field
    calls,              \* execute_task calls suspended in a helper, counted
                        \* per <<agent, task type>>
    returned,           \* the execute_task call that finished last
    leadgen,            \* in-flight invocations of _autonomous_lead_generation
    running,            \* job -> tasks its callback created, still running
    callback_error,     \* the job whose callback raised in a run_pending,
                        \* "none" when none did
    error_messages,     \* str(error) of two failures that reach the handler
    error_keys,         \* the error_key derived for each of them
    cron,               \* the cron trigger whose background task is running
    qualify             \* the calls of _auto_qualify_leads in flight

scoreVars == <<lead, score>>
recoveryVars == <<recovery_attempts, inv, alerts, failures>>
gatherVars == <<entry, cycles>>
schedVars == <<jobs, spawned, last_check, now, running, callback_error>>
agentVars == <<agent_status, calls, returned>>
leadgenVars == <<leadgen>>
keyVars == <<error_messages, error_keys>>
cronVars == <<cron>>
qualifyVars == <<qualify>>
vars == <<lead, score, recovery_attempts, inv, alerts, failures, entry, cycles,
          jobs, spawned, last_check, now, agent_status, calls,
          returned, leadgen, running, callback_error, error_messages,
          error_keys, cron, qualify>>

(***************************************************************************)
(* Python string operations                                                *)
(***************************************************************************)
Upper == <<"A","B","C","D","E","F","G","H","I","J","K","L","M",
           "N","O","P","Q","R","S","T","U","V","W","X","Y","Z">>
LowerOf == <<"a","b","c","d","e","f","g","h","i","j","k","l","m",
             "n","o","p","q","r","s","t","u","v","w","x","y","z">>

\* str.lower() on one character
LowerChar(c) ==
    IF \E i \in 1..Len(Upper) : Upper[i] = c
    THEN LowerOf[CHOOSE i \in 1..Len(Upper) : Upper[i] = c]
    ELSE c

\* str.lower()
Lower(s) == [i \in 1..Len(s) |-> LowerChar(s[i])]

\* needle in hay
Contains(hay, needle) ==
    \E i \in 1..(Len(hay) - Len(needle) + 1) :
        SubSeq(hay, i, i + Len(needle) - 1) = needle

\* index of the first occurrence of character c in s, 0 when absent
IndexOf(s, c) ==
    IF \E i \in 1..Len(s) : s[i] = c
    THEN CHOOSE i \in 1..Len(s) : s[i] = c /\ \A j \in 1..(i - 1) : s[j] # c
    ELSE 0

\* s.split(c)
RECURSIVE Split(_, _)
Split(s, c) ==
    IF IndexOf(s, c) = 0 THEN <<s>>
    ELSE <<SubSeq(s, 1, IndexOf(s, c) - 1)>>
         \o Split(SubSeq(s, IndexOf(s, c) + 1, Len(s)), c)

Digits == <<"0","1","2","3","4","5","6","7","8","9">>
IsDigit(c) == \E i \in 1..Len(Digits) : Digits[i] = c
DigitVal(c) == (CHOOSE i \in 1..Len(Digits) : Digits[i] = c) - 1

\* str.strip() of blanks
RECURSIVE Strip(_)
Strip(s) ==
    IF Len(s) = 0 THEN s
    ELSE IF s[1] = " " THEN Strip(Tail(s))
    ELSE IF s[Len(s)] = " " THEN Strip(SubSeq(s, 1, Len(s) - 1))
    ELSE s

RECURSIVE DigitsValue(_)
DigitsValue(s) ==
    IF Len(s) = 0 THEN 0
    ELSE 10 * DigitsValue(SubSeq(s, 1, Len(s) - 1)) + DigitVal(s[Len(s)])

\* int(s): blanks stripped, an optional sign, then one or more digits;
\* anything else is a ValueError
ParseInt(s) ==
    LET t == Strip(s)
        signed == Len(t) > 0 /\ t[1] \in {"+", "-"}
        body == IF signed THEN Tail(t) ELSE t
    IN  IF Len(body) > 0 /\ \A i \in 1..Len(body) : IsDigit(body[i])
        THEN [ok |-> TRUE,
              val |-> IF signed /\ t[1] = "-" THEN 0 - DigitsValue(body)
                      ELSE DigitsValue(body)]
        ELSE [ok |-> FALSE, val |-> 0]

(***************************************************************************)
(* Python values of a lead's fields: a str, an int or a bool               *)
(***************************************************************************)
PyStr(s) == [t |-> "str", s |-> s, n |-> 0, b |-> FALSE]
PyInt(n) == [t |-> "int", s |-> <<>>, n |-> n, b |-> FALSE]
PyBool(b) == [t |-> "bool", s |-> <<>>, n |-> 0, b |-> b]

\* lead.get(key, default)
Get(d, key, default) == IF key \in DOMAIN d THEN d[key] ELSE default

\* truth value of a Python value
Truthy(v) ==
    CASE v.t = "bool" -> v.b
      [] v.t = "int" -> v.n # 0
      [] v.t = "str" -> Len(v.s) > 0

(***************************************************************************)
(* AutonomousDecisionEngine.calculate_lead_score                           *)
(***************************************************************************)
high_value_titles ==
    { <<"C", "E", "O">>, <<"C", "T", "O">>, <<"V", "P">>,
      <<"D", "i", "r", "e", "c", "t", "o", "r">>,
      <<"H", "e", "a", "d", " ", "o", "f">>,
      <<"C", "h", "i", "e", "f">>,
      <<"P", "r", "e", "s", "i", "d", "e", "n", "t">> }

target_industries ==
    { <<"t", "e", "c", "h", "n", "o", "l", "o", "g", "y">>,
      <<"s", "o", "f", "t", "w", "a", "r", "e">>,
      <<"a", "i">>,
      <<"h", "e", "a", "l", "t", "h", "c", "a", "r", "e">>,
      <<"f", "i", "n", "t", "e", "c", "h">>,
      <<"s", "a", "a", "s">> }

TitleWeight == 35
LargeCompanyWeight == 25
MidCompanyWeight == 15
IndustryWeight == 20
ActivityWeight == 20
LargeCompanyMin == 200
MidCompanyMin == 50
ScoreCap == 100

Min(a, b) == IF a <= b THEN a ELSE b

Returned(v) == [status |-> "returned", value |-> v, exc |-> "none"]
Raised(e) == [status |-> "raised", value |-> 0, exc |-> e]
NotScored == [status |-> "pending", value |-> 0, exc |-> "none"]

\* lines 427-431
TitleScore(l) ==
    LET title == Lower(Get(l, "title", PyStr(<<>>)).s)
    IN  IF \E hvt \in high_value_titles : Contains(title, Lower(hvt))
        THEN TitleWeight ELSE 0

\* lines 437-440 with a penalty for small companies
SizeBucket_MutPenalty(max_size) ==
    IF max_size >= LargeCompanyMin THEN LargeCompanyWeight
    ELSE IF max_size >= MidCompanyMin THEN MidCompanyWeight
    ELSE 0 - MidCompanyWeight

\* lines 437-440 with > for the first >=
SizeBucket_MutStrict(max_size) ==
    IF max_size > LargeCompanyMin THEN LargeCompanyWeight
    ELSE IF max_size >= MidCompanyMin THEN MidCompanyWeight
    ELSE 0

\* lines 437-440: the contribution of an upper bound that parsed
SizeBucket(max_size) ==
    IF max_size >= LargeCompanyMin THEN LargeCompanyWeight
    ELSE IF max_size >= MidCompanyMin THEN MidCompanyWeight
    ELSE 0

\* lines 433-440: [ok, val]; ok is FALSE when int() raises ValueError
CompanySizeScore(l) ==
    LET company_size == Get(l, "company_size", PyStr(<<"0">>))
    IN  IF company_size.t = "str" /\ Contains(company_size.s, <<"-">>)
        THEN LET max_size == ParseInt(Split(company_size.s, "-")[2])
             IN  IF max_size.ok
                 THEN [ok |-> TRUE, val |-> SizeBucket(max_size.val)]
                 ELSE [ok |-> FALSE, val |-> 0]
        ELSE [ok |-> TRUE, val |-> 0]

\* lines 442-446
IndustryScore(l) ==
    LET industry == Lower(Get(l, "industry", PyStr(<<>>)).s)
    IN  IF \E ti \in target_industries : Contains(industry, ti)
        THEN IndustryWeight ELSE 0

\* lines 448-450
ActivityScore(l) ==
    IF Truthy(Get(l, "recent_activity", PyBool(FALSE)))
    THEN ActivityWeight ELSE 0

\* line 452
ClampScore(total) == Min(total, ScoreCap)

calculate_lead_score(l) ==
    IF ~CompanySizeScore(l).ok THEN Raised("ValueError")
    ELSE Returned(ClampScore(TitleScore(l) + CompanySizeScore(l).val
                             + IndustryScore(l) + ActivityScore(l)))

(***************************************************************************)
(* Lead records handed to the scorer.  Each case carries the text of the   *)
(* field and what the scoring rules say about it.                          *)
(***************************************************************************)
TitleCases ==
    { [text |-> <<"V", "P", " ", "o", "f", " ", "E", "n", "g", "i", "n", "e", "e", "r", "i", "n", "g">>,
       senior |-> TRUE],
      [text |-> <<"c", "e", "o">>, senior |-> TRUE],
      [text |-> <<"M", "a", "n", "a", "g", "i", "n", "g", " ", "D", "i", "r", "e", "c", "t", "o", "r">>,
       senior |-> TRUE],
      [text |-> <<"S", "o", "f", "t", "w", "a", "r", "e", " ", "E", "n", "g", "i", "n", "e", "e", "r">>,
       senior |-> FALSE],
      [text |-> <<"I", "n", "t", "e", "r", "n">>, senior |-> FALSE] }

IndustryCases ==
    { [text |-> <<"S", "a", "a", "S">>, target |-> TRUE],
      [text |-> <<"F", "i", "n", "t", "e", "c", "h">>, target |-> TRUE],
      [text |-> <<"R", "e", "t", "a", "i", "l">>, target |-> TRUE],
      [text |-> <<"F", "a", "r", "m", "i", "n", "g">>, target |-> FALSE] }

\* well-formed "min-max" sizes with their upper bound
WellFormedSizes ==
    { [text |-> <<"5", "0", "-", "5", "0", "0">>, max |-> 500],
      [text |-> <<"5", "1", "-", "2", "0", "0">>, max |-> 200],
      [text |-> <<"0", "-", "1", "9", "9">>, max |-> 199],
      [text |-> <<"2", "0", "0", "-", "5", "0">>, max |-> 50],
      [text |-> <<"1", "1", "-", "5", "0">>, max |-> 50],
      [text |-> <<"1", "0", "-", "4", "9">>, max |-> 49],
      [text |-> <<"1", "-", "1", "0">>, max |-> 10] }

\* malformed sizes: no separator, or a separator with no number after it
MalformedSizes ==
    { [text |-> <<"u", "n", "k", "n", "o", "w", "n">>, separator |-> FALSE],
      [text |-> <<"1", "0", "0", "0", "+">>, separator |-> FALSE],
      [text |-> <<"s", "m", "a", "l", "l", "-", "l", "a", "r", "g", "e">>, separator |-> TRUE],
      [text |-> <<"5", "0", "-">>, separator |-> TRUE] }

TitleValues == {PyStr(c.text) : c \in TitleCases}
IndustryValues == {PyStr(c.text) : c \in IndustryCases}
SizeValues == {PyStr(c.text) : c \in WellFormedSizes \cup MalformedSizes}
              \cup {PyInt(500)}
ActivityValues == {PyBool(TRUE), PyBool(FALSE)}

Absent == [t |-> "absent", s |-> <<>>, n |-> 0, b |-> FALSE]

\* the dict with the keys that are present
MkLead(title, size, industry, activity) ==
    LET all == [title |-> title, company_size |-> size,
                industry |-> industry, recent_activity |-> activity]
        keys == {k \in DOMAIN all : all[k] # Absent}
    IN  [k \in keys |-> all[k]]

Leads ==
    { MkLead(ti, sz, ind, act) :
        ti \in TitleValues \cup {Absent}, sz \in SizeValues \cup {Absent},
        ind \in IndustryValues \cup {Absent}, act \in ActivityValues \cup {Absent} }

ScoreIdle ==
    /\ lead = MkLead(Absent, Absent, Absent, Absent)
    /\ score = NotScored

\* the lead under evaluation is any lead of the bounded set
ScoreInit ==
    /\ lead \in Leads
    /\ score = NotScored

\* _auto_qualify_leads line 313: one call of the scorer on the lead
ScoreLead ==
    /\ score = NotScored
    /\ score' = calculate_lead_score(lead)
    /\ UNCHANGED <<lead, recoveryVars, gatherVars, schedVars, agentVars, leadgenVars, keyVars, cronVars, qualifyVars>>

(***************************************************************************)
(* _auto_qualify_leads                                                     *)
(***************************************************************************)
MaxLeads == 3          \* leads in the list handed to one call
MaxOverlapLeads == 2   \* leads in each list when two calls overlap
QualifyThreshold == 70 \* line 315: 0.7, in hundredths

QualifySlots == 1..2

PyFloat(h) == [t |-> "float", s |-> <<>>, n |-> h, b |-> FALSE]

\* leads on both sides of the threshold: 1.0, 0.7 (title, mid size,
\* industry), 0.65 (all but the title), 0.75 and 0.55 without a size, 0.75
\* with a size that has no separator, and a size the scorer raises on
QualifyLeads ==
    { MkLead(PyStr(<<"V", "P", " ", "o", "f", " ", "E", "n", "g", "i", "n", "e", "e", "r", "i", "n", "g">>),
             PyStr(<<"5", "0", "-", "5", "0", "0">>), PyStr(<<"S", "a", "a", "S">>), PyBool(TRUE)),
      MkLead(PyStr(<<"c", "e", "o">>), PyStr(<<"0", "-", "1", "9", "9">>),
             PyStr(<<"S", "a", "a", "S">>), PyBool(FALSE)),
      MkLead(PyStr(<<"I", "n", "t", "e", "r", "n">>), PyStr(<<"5", "0", "-", "5", "0", "0">>),
             PyStr(<<"F", "i", "n", "t", "e", "c", "h">>), PyBool(TRUE)),
      MkLead(PyStr(<<"c", "e", "o">>), Absent, PyStr(<<"F", "i", "n", "t", "e", "c", "h">>),
             PyBool(TRUE)),
      MkLead(PyStr(<<"c", "e", "o">>), Absent, PyStr(<<"F", "i", "n", "t", "e", "c", "h">>),
             Absent),
      MkLead(PyStr(<<"c", "e", "o">>), PyStr(<<"u", "n", "k", "n", "o", "w", "n">>),
             PyStr(<<"S", "a", "a", "S">>), PyBool(TRUE)),
      MkLead(PyStr(<<"c", "e", "o">>), PyStr(<<"5", "0", "-">>),
             PyStr(<<"S", "a", "a", "S">>), PyBool(TRUE)) }

\* the lists of at most n leads
LeadLists(n) == UNION {[1..k -> QualifyLeads] : k \in 0..n}

NotCalled == [leads |-> <<>>, pos |-> 0, qualified |-> <<>>, pc |-> "idle", exc |-> "none"]

\* line 307: a call with the list leads, before its first statement
Called(leads) == [NotCalled EXCEPT !.leads = leads, !.pc = "called"]

QualifyIdle == qualify = [i \in QualifySlots |-> NotCalled]

\* one call, with any list of the bounded set
QualifyInit ==
    \E leads \in LeadLists(MaxLeads) :
        qualify = [i \in QualifySlots |-> IF i = 1 THEN Called(leads) ELSE NotCalled]

\* two calls in flight, as two lead generation cycles make them
QualifyOverlapInit ==
    qualify \in [QualifySlots -> {Called(leads) : leads \in LeadLists(MaxOverlapLeads)}]

\* a threshold that the score has to pass
Qualifies_MutAbove(s) == s.value > QualifyThreshold

\* line 315
Qualifies(s) == s.value >= QualifyThreshold

\* lines 318-319: the two keys set on the dict that the research returned
Tagged(enhanced_lead, s) ==
    [k \in DOMAIN enhanced_lead \cup {"ai_score", "auto_qualified"} |->
        IF k = "ai_score" THEN PyFloat(s.value)
        ELSE IF k = "auto_qualified" THEN PyBool(TRUE)
        ELSE enhanced_lead[k]]

\* lines 311-322: the loop from the lead at pos runs to the next await, which
\* is the research of a lead that qualifies, to the return after the last
\* lead, or to the exception that the scorer raises
RECURSIVE ScanFrom(_, _)
ScanFrom(call, pos) ==
    IF pos > Len(call.leads)
    THEN [call EXCEPT !.pos = pos, !.pc = "returned"]
    ELSE LET s == calculate_lead_score(call.leads[pos])
         IN  IF s.status = "raised"
             THEN [call EXCEPT !.pos = pos, !.pc = "raised", !.exc = s.exc]
             ELSE IF Qualifies(s)
             THEN [call EXCEPT !.pos = pos, !.pc = "research"]
             ELSE ScanFrom(call, pos + 1)

\* lines 309-317: the call runs to its first await, to its return or to a raise
AutoQualifyLeads(i) ==
    /\ qualify[i].pc = "called"
    /\ qualify' = [qualify EXCEPT ![i] = ScanFrom(@, 1)]
    /\ UNCHANGED <<scoreVars, recoveryVars, gatherVars, schedVars, agentVars,
                   leadgenVars, keyVars, cronVars>>

\* lines 317-320: _auto_research_lead returns the lead, which is tagged and
\* appended, and the loop goes on
ResearchReturns(i) ==
    /\ qualify[i].pc = "research"
    /\ LET call == qualify[i]
           l == call.leads[call.pos]
           appended == [call EXCEPT !.qualified =
                           Append(@, Tagged(l, calculate_lead_score(l)))]
       IN  qualify' = [qualify EXCEPT ![i] = ScanFrom(appended, call.pos + 1)]
    /\ UNCHANGED <<scoreVars, recoveryVars, gatherVars, schedVars, agentVars,
                   leadgenVars, keyVars, cronVars>>

\* line 317: _auto_research_lead raises, and nothing in the method catches it
ResearchRaises(i) ==
    /\ qualify[i].pc = "research"
    /\ qualify' = [qualify EXCEPT ![i].pc = "raised", ![i].exc = "AttributeError"]
    /\ UNCHANGED <<scoreVars, recoveryVars, gatherVars, schedVars, agentVars,
                   leadgenVars, keyVars, cronVars>>

(***************************************************************************)
(* AutoErrorRecovery and _autonomous_revenue_cycle                         *)
(***************************************************************************)
MaxInFlight == 2     \* revenue cycle invocations in flight at once
MaxFailures == 5     \* failures raised in one run of the model

Slots == 1..MaxInFlight

\* str(error) of the exceptions the collaborators raise
Msg502 == <<"S","t","r","i","p","e"," ","r","e","q","u","e","s","t"," ","f","a","i","l","e","d"," ","f","o","r"," ","t","h","e"," ","d","a","i","l","y"," ","r","e","v","e","n","u","e"," ","r","e","p","o","r","t",":"," ","s","t","a","t","u","s"," ","5","0","2">>
Msg503 == <<"S","t","r","i","p","e"," ","r","e","q","u","e","s","t"," ","f","a","i","l","e","d"," ","f","o","r"," ","t","h","e"," ","d","a","i","l","y"," ","r","e","v","e","n","u","e"," ","r","e","p","o","r","t",":"," ","s","t","a","t","u","s"," ","5","0","3">>
MsgLocked == <<"d","a","t","a","b","a","s","e"," ","i","s"," ","l","o","c","k","e","d">>
Msgs == {Msg502, Msg503, MsgLocked}
NoErr == <<>>

\* __init__ line 488
max_recovery_attempts == 3
\* __init__ line 51
daily_revenue_target == 1000
\* the [:50] of line 492
KeySliceLen == 50

\* what database.get_daily_revenue can return
RevenueValues == {400, 1000}

\* s[:n]
Slice(s, n) == SubSeq(s, 1, Min(n, Len(s)))

\* a key that leaves the message out
ErrorKey_MutDomainOnly(error) == <<"r","e","v","e","n","u","e","_">>

\* line 492 with [:49]
ErrorKey_MutShortSlice(error) ==
    <<"r","e","v","e","n","u","e","_">> \o Slice(error, KeySliceLen - 1)

\* line 492: f"revenue_{str(error)[:50]}"
ErrorKey(error) ==
    <<"r","e","v","e","n","u","e","_">> \o Slice(error, KeySliceLen)

\* lines 494-497 with = 1 for += 1
CountFailure_MutRestarts(attempts, key) ==
    [k \in DOMAIN attempts \cup {key} |-> IF k = key THEN 1 ELSE attempts[k]]

\* lines 494-497: the counter is created at 0 and incremented
CountFailure(attempts, key) ==
    IF key \in DOMAIN attempts
    THEN [attempts EXCEPT ![key] = @ + 1]
    ELSE [k \in DOMAIN attempts \cup {key} |->
            IF k = key THEN 1 ELSE attempts[k]]

\* line 499 with < for <=
MayRecover_MutStrict(count) == count < max_recovery_attempts

\* line 499 escalating on the 4th failure only
MayRecover_MutOnlyFourth(count) == count # max_recovery_attempts + 1

\* line 499
MayRecover(count) == count <= max_recovery_attempts

\* lines 514-523: the alert message
AlertMessage(system, error, time) ==
    [system |-> system, error |-> error, time |-> time]

\* an invocation: where it is, the revenue action it awaits, the exception
\* it caught, how it ended, and the daily revenue it fetched (0 before)
IdleInv ==
    [pc |-> "idle", step |-> 0, err |-> NoErr, outcome |-> "none", revenue |-> 0]
Done(how) ==
    [pc |-> "done", step |-> 0, err |-> NoErr, outcome |-> how, revenue |-> 0]

\* line 126: the cycle logs the revenue it fetched and returns
Complete(current_revenue) == [Done("complete") EXCEPT !.revenue = current_revenue]

\* line 113 with >= for >
HasGap_MutAtTarget(target_gap) == target_gap >= 0

\* line 113: if target_gap > 0
HasGap(target_gap) == target_gap > 0

\* the awaits of lines 115-124, in order
RevenueSteps ==
    <<"_execute_revenue_strategy", "_auto_follow_up_proposals",
      "_auto_nurture_warm_leads", "_auto_prioritize_revenue_activities">>

RECURSIVE SumOver(_, _)
SumOver(f, S) ==
    IF S = {} THEN 0
    ELSE LET x == CHOOSE y \in S : TRUE
         IN  f[x] + SumOver(f, S \ {x})

\* failures raised so far: handled ones and those waiting for the handler
FailuresRaised ==
    SumOver(failures, Msgs) + Cardinality({i \in Slots : inv[i].pc = "except"})

CanFail == FailuresRaised < MaxFailures

RecoveryInit ==
    /\ recovery_attempts = <<>>
    /\ inv = [i \in Slots |-> IdleInv]
    /\ alerts = <<>>
    /\ failures = [m \in Msgs |-> 0]

\* a trigger calls _autonomous_revenue_cycle (line 104); the invocation
\* takes the lowest slot not in flight
StartRevenueCycle(i) ==
    /\ inv[i].pc \in {"idle", "done"}
    /\ \A k \in Slots : k < i => inv[k].pc \notin {"idle", "done"}
    /\ inv' = [inv EXCEPT ![i] = [IdleInv EXCEPT !.pc = "get_daily_revenue"]]
    /\ UNCHANGED <<recovery_attempts, alerts, failures, scoreVars, gatherVars, schedVars, agentVars, leadgenVars, keyVars, cronVars, qualifyVars>>

\* lines 110-113 and 126: the revenue is fetched and the gap decides
GetDailyRevenue(i) ==
    /\ inv[i].pc = "get_daily_revenue"
    /\ \/ \E current_revenue \in RevenueValues :
            inv' = [inv EXCEPT ![i] =
                      IF HasGap(daily_revenue_target - current_revenue)
                      THEN [IdleInv EXCEPT !.pc = "revenue_step", !.step = 1,
                                           !.revenue = current_revenue]
                      ELSE Complete(current_revenue)]
       \/ \E m \in Msgs :
            /\ CanFail
            /\ inv' = [inv EXCEPT ![i] = [IdleInv EXCEPT !.pc = "except", !.err = m]]
    /\ UNCHANGED <<recovery_attempts, alerts, failures, scoreVars, gatherVars, schedVars, agentVars, leadgenVars, keyVars, cronVars, qualifyVars>>

\* a cycle whose completion also clears the counters
RevenueStep_MutResets(i) ==
    /\ inv[i].pc = "revenue_step"
    /\ \/ /\ inv' = [inv EXCEPT ![i] =
                       IF inv[i].step = Len(RevenueSteps) THEN Complete(inv[i].revenue)
                       ELSE [@ EXCEPT !.step = @ + 1]]
          /\ recovery_attempts' =
               IF inv[i].step = Len(RevenueSteps)
               THEN [k \in DOMAIN recovery_attempts |-> 0]
               ELSE recovery_attempts
       \/ \E m \in Msgs :
            /\ CanFail
            /\ inv' = [inv EXCEPT ![i] = [IdleInv EXCEPT !.pc = "except", !.err = m]]
            /\ UNCHANGED recovery_attempts
    /\ UNCHANGED <<alerts, failures, scoreVars, gatherVars, schedVars, agentVars, leadgenVars, keyVars, cronVars, qualifyVars>>

\* lines 115-126: one of the four awaited revenue actions returns or raises
RevenueStep(i) ==
    /\ inv[i].pc = "revenue_step"
    /\ \/ inv' = [inv EXCEPT ![i] =
                    IF inv[i].step = Len(RevenueSteps) THEN Complete(inv[i].revenue)
                    ELSE [@ EXCEPT !.step = @ + 1]]
       \/ \E m \in Msgs :
            /\ CanFail
            /\ inv' = [inv EXCEPT ![i] = [IdleInv EXCEPT !.pc = "except", !.err = m]]
    /\ UNCHANGED <<recovery_attempts, alerts, failures, scoreVars, gatherVars, schedVars, agentVars, leadgenVars, keyVars, cronVars, qualifyVars>>

\* a handler that suspends between reading and writing the counter: of two
\* calls for one key that overlap, the write of the first is lost
HandleRevenueError_MutYields(i) ==
    /\ inv[i].pc = "except"
    /\ LET error_key == ErrorKey(inv[i].err)
           overlaps == \E k \in Slots \ {i} :
                          inv[k].pc = "except" /\ ErrorKey(inv[k].err) = error_key
           counted == IF overlaps /\ error_key \in DOMAIN recovery_attempts
                      THEN recovery_attempts
                      ELSE CountFailure(recovery_attempts, error_key)
       IN  /\ recovery_attempts' = counted
           /\ inv' = [inv EXCEPT ![i] =
                        IF MayRecover(counted[error_key])
                        THEN [IdleInv EXCEPT !.pc = "alternative"]
                        ELSE [@ EXCEPT !.pc = "alert"]]
    /\ failures' = [failures EXCEPT ![inv[i].err] = @ + 1]
    /\ UNCHANGED <<alerts, scoreVars, gatherVars, schedVars, agentVars, leadgenVars, keyVars, cronVars, qualifyVars>>

\* lines 128-129 and 490-499, 508-510: the key, the counter and the branch,
\* run without a suspension point
HandleRevenueError(i) ==
    /\ inv[i].pc = "except"
    /\ LET error_key == ErrorKey(inv[i].err)
           counted == CountFailure(recovery_attempts, error_key)
       IN  /\ recovery_attempts' = counted
           /\ inv' = [inv EXCEPT ![i] =
                        IF MayRecover(counted[error_key])
                        THEN [IdleInv EXCEPT !.pc = "alternative"]
                        ELSE [@ EXCEPT !.pc = "alert"]]
    /\ failures' = [failures EXCEPT ![inv[i].err] = @ + 1]
    /\ UNCHANGED <<alerts, scoreVars, gatherVars, schedVars, agentVars, leadgenVars, keyVars, cronVars, qualifyVars>>

\* lines 503-507 with an alert sent when the fallback fails
AlternativeRevenueMethods_MutAlerts(i) ==
    /\ inv[i].pc = "alternative"
    /\ \/ /\ inv' = [inv EXCEPT ![i] = Done("recovered")]
          /\ UNCHANGED alerts
       \/ /\ inv' = [inv EXCEPT ![i] = Done("recovery_failed")]
          /\ alerts' = Append(alerts, AlertMessage("revenue", NoErr, now))
    /\ UNCHANGED <<recovery_attempts, failures, scoreVars, gatherVars, schedVars, agentVars, leadgenVars, keyVars, cronVars, qualifyVars>>

\* lines 503-507 without the except clause of line 506
AlternativeRevenueMethods_MutPropagates(i) ==
    /\ inv[i].pc = "alternative"
    /\ \/ inv' = [inv EXCEPT ![i] = Done("recovered")]
       \/ inv' = [inv EXCEPT ![i] = Done("raised")]
    /\ UNCHANGED <<recovery_attempts, alerts, failures, scoreVars, gatherVars, schedVars, agentVars, leadgenVars, keyVars, cronVars, qualifyVars>>

\* lines 503-507: the fallback returns or raises; either way it is logged
\* and handle_revenue_error returns
AlternativeRevenueMethods(i) ==
    /\ inv[i].pc = "alternative"
    /\ \/ inv' = [inv EXCEPT ![i] = Done("recovered")]
       \/ inv' = [inv EXCEPT ![i] = Done("recovery_failed")]
    /\ UNCHANGED <<recovery_attempts, alerts, failures, scoreVars, gatherVars, schedVars, agentVars, leadgenVars, keyVars, cronVars, qualifyVars>>

\* lines 512-526: the alert is sent, or the send raises and the exception
\* leaves handle_revenue_error and the cycle method
SendManualInterventionAlert(i) ==
    /\ inv[i].pc = "alert"
    /\ \/ /\ alerts' = Append(alerts, AlertMessage("revenue", inv[i].err, now))
          /\ inv' = [inv EXCEPT ![i] = Done("alerted")]
       \/ /\ inv' = [inv EXCEPT ![i] = Done("raised")]
          /\ UNCHANGED alerts
    /\ UNCHANGED <<recovery_attempts, failures, scoreVars, gatherVars, schedVars, agentVars, leadgenVars, keyVars, cronVars, qualifyVars>>

(***************************************************************************)
(* The error key of two failures, derived as handle_revenue_error does     *)
(***************************************************************************)
\* the first 49 characters of the Stripe messages
Prefix49 == SubSeq(Msg502, 1, 49)

\* str(error) of the failures compared: the three messages of the cycles, the
\* 50-character prefix alone, messages that leave it at character 50 and at
\* character 51, a 49-character message and the empty message
KeyMessages ==
    Msgs \cup
    { Prefix49 \o <<"t">>,
      Prefix49 \o <<"s", ":", " ", "s", "t", "a", "t", "u", "s", " ", "5", "0", "2">>,
      Prefix49 \o <<"t", ";", " ", "s", "t", "a", "t", "u", "s", " ", "5", "0", "2">>,
      Prefix49,
      <<>> }

NoKeys == <<>>

KeyIdle ==
    /\ error_messages = <<NoErr, NoErr>>
    /\ error_keys = NoKeys

\* two failures reach the handler
KeyInit ==
    /\ error_messages \in KeyMessages \X KeyMessages
    /\ error_keys = NoKeys

\* line 492, for each of the two failures
DeriveKeys ==
    /\ error_keys = NoKeys
    /\ error_keys' = <<ErrorKey(error_messages[1]), ErrorKey(error_messages[2])>>
    /\ UNCHANGED <<error_messages, scoreVars, recoveryVars, gatherVars, schedVars,
                   agentVars, leadgenVars, cronVars, qualifyVars>>

(***************************************************************************)
(* start_autonomous_operation: the schedules and asyncio.gather            *)
(***************************************************************************)
\* lines 70-77: the coroutines gathered
GatherMembers ==
    { "_autonomous_revenue_generation", "_autonomous_lead_management",
      "_autonomous_content_creation", "_autonomous_opportunity_hunting",
      "_autonomous_client_management", "_autonomous_error_recovery",
      "_autonomous_optimization", "_weekly_autonomous_strategy" }

\* lines 84-102: the callbacks registered with schedule
JobNames ==
    { "_autonomous_revenue_cycle", "_autonomous_lead_generation",
      "_autonomous_content_pipeline", "_autonomous_opportunity_scan",
      "_autonomous_client_care", "_autonomous_system_optimization",
      "_weekly_strategic_briefing" }

TimeUnitMinutes == 30

\* lines 84-102: the interval of each job, in minutes
JobMinutes ==
    [ _autonomous_revenue_cycle |-> 2 * 60,
      _autonomous_lead_generation |-> 60,
      _autonomous_content_pipeline |-> 3 * 60,
      _autonomous_opportunity_scan |-> 4 * 60,
      _autonomous_client_care |-> 30,
      _autonomous_system_optimization |-> 6 * 60,
      _weekly_strategic_briefing |-> 7 * 24 * 60 ]

JobPeriod(j) == JobMinutes[j] \div TimeUnitMinutes

GatherInit ==
    /\ entry = "idle"
    /\ cycles = [c \in GatherMembers |-> "not_started"]

SchedInit ==
    /\ jobs = <<>>
    /\ spawned = [j \in JobNames |-> 0]
    /\ last_check = -1
    /\ now = 0
    /\ running = [j \in JobNames |-> 0]
    /\ callback_error = "none"

\* lines 61-78: the jobs are registered, none of them due, and the eight
\* coroutines are handed to asyncio.gather
StartAutonomousOperation ==
    /\ entry = "idle"
    /\ jobs' = [j \in JobNames |-> [last_run |-> now]]
    /\ cycles' = [c \in GatherMembers |-> "running"]
    /\ entry' = "gathering"
    /\ UNCHANGED <<spawned, last_check, now, running, callback_error, scoreVars, recoveryVars,
                   agentVars, leadgenVars, keyVars, cronVars, qualifyVars>>

\* a gathered coroutine returns
CycleReturns(c) ==
    /\ cycles[c] = "running"
    /\ cycles' = [cycles EXCEPT ![c] = "returned"]
    /\ UNCHANGED <<entry, schedVars, scoreVars, recoveryVars, agentVars, leadgenVars, keyVars, cronVars, qualifyVars>>

\* a gathered coroutine raises
CycleRaises(c) ==
    /\ cycles[c] = "running"
    /\ cycles' = [cycles EXCEPT ![c] = "raised"]
    /\ UNCHANGED <<entry, schedVars, scoreVars, recoveryVars, agentVars, leadgenVars, keyVars, cronVars, qualifyVars>>

\* lines 69-78: asyncio.gather without return_exceptions returns the list of
\* results once every coroutine returned, and raises the first exception to
\* its awaiter as soon as a coroutine raised, leaving the others running
GatherResolves ==
    /\ entry = "gathering"
    /\ \/ /\ \A c \in GatherMembers : cycles[c] = "returned"
          /\ entry' = "returned"
       \/ /\ \E c \in GatherMembers : cycles[c] = "raised"
          /\ entry' = "raised"
    /\ UNCHANGED <<cycles, schedVars, scoreVars, recoveryVars, agentVars, leadgenVars, keyVars, cronVars, qualifyVars>>

\* lines 648-658: the exception leaves start_ultra_automated_empire, and
\* asyncio.run cancels the tasks still running before it re-raises
RunCancelsRest ==
    /\ entry = "raised"
    /\ \E c \in GatherMembers : cycles[c] = "running"
    /\ cycles' = [c \in GatherMembers |->
                    IF cycles[c] = "running" THEN "cancelled" ELSE cycles[c]]
    /\ UNCHANGED <<entry, schedVars, scoreVars, recoveryVars, agentVars, leadgenVars, keyVars, cronVars, qualifyVars>>

(***************************************************************************)
(* The periodic scheduler: run_pending over the registered jobs            *)
(***************************************************************************)
MaxTime == 12        \* the clock stops after MaxTime units
MaxRunning == 2      \* tasks of one job running at once

\* a callback that skips the job while a task of it is still running
CreateTask_MutGuarded(run, j) ==
    IF run[j] > 0 THEN run ELSE [run EXCEPT ![j] = @ + 1]

\* lines 84-102: each callback is lambda: asyncio.create_task(<cycle>()),
\* which starts one more task of the job and returns at once
CreateTask(run, j) == [run EXCEPT ![j] = @ + 1]

\* a job that is due at every check
IsDue_MutAlways(job, period, time) == job.last_run <= time

\* a job is due once its interval has elapsed since it last ran
IsDue(job, period, time) == job.last_run + period <= time

DueJobs == {j \in JobNames : IsDue(jobs[j], JobPeriod(j), now)}

\* one tick of wall time
Tick ==
    /\ jobs # <<>>
    /\ now < MaxTime
    /\ now' = now + 1
    /\ UNCHANGED <<jobs, spawned, last_check, running, callback_error, gatherVars, scoreVars,
                   recoveryVars, agentVars, leadgenVars, keyVars, cronVars, qualifyVars>>

\* run_pending: every due job's callback runs once, which creates one task
\* (lines 84-102: asyncio.create_task), and the job is stamped with the time
RunPending ==
    /\ jobs # <<>>
    /\ entry = "gathering"
    /\ jobs' = [j \in JobNames |->
                  IF j \in DueJobs THEN [last_run |-> now] ELSE jobs[j]]
    /\ spawned' = [j \in JobNames |-> IF j \in DueJobs THEN 1 ELSE 0]
    /\ last_check' = now
    /\ \A j \in DueJobs : running[j] < MaxRunning
    /\ running' = [j \in JobNames |->
                     IF j \in DueJobs THEN CreateTask(running, j)[j] ELSE running[j]]
    /\ UNCHANGED <<now, callback_error, gatherVars, scoreVars, recoveryVars, agentVars, leadgenVars, keyVars, cronVars, qualifyVars>>

\* a task created by the callback of job j runs to its end
TaskFinishes(j) ==
    /\ running[j] > 0
    /\ running' = [running EXCEPT ![j] = @ - 1]
    /\ UNCHANGED <<jobs, spawned, last_check, now, callback_error, gatherVars, scoreVars,
                   recoveryVars, agentVars, leadgenVars, keyVars, cronVars, qualifyVars>>

\* lines 84-102: the order in which the jobs are registered
JobIndex ==
    [ _autonomous_revenue_cycle |-> 1,
      _autonomous_lead_generation |-> 2,
      _autonomous_content_pipeline |-> 3,
      _autonomous_opportunity_scan |-> 4,
      _autonomous_client_care |-> 5,
      _autonomous_system_optimization |-> 6,
      _weekly_strategic_briefing |-> 7 ]

\* run_pending runs the due jobs by the time they became due, jobs due at
\* the same time in the order of their registration
RunsBefore(j, f) ==
    \/ jobs[j].last_run + JobPeriod(j) < jobs[f].last_run + JobPeriod(f)
    \/ /\ jobs[j].last_run + JobPeriod(j) = jobs[f].last_run + JobPeriod(f)
       /\ JobIndex[j] < JobIndex[f]

\* run_pending when the callback of the due job f raises (lines 84-102: the
\* callbacks are bare lambdas, which catch nothing): the due jobs before f
\* have run and are stamped; the exception leaves the callback and
\* run_pending, so f is not stamped and the due jobs after f are not run.
\* At most one callback raises in a run of the model.
RunPendingCallbackRaises ==
    /\ jobs # <<>>
    /\ entry = "gathering"
    /\ callback_error = "none"
    /\ \E f \in DueJobs :
          LET ran == {j \in DueJobs : RunsBefore(j, f)}
          IN  /\ \A j \in ran : running[j] < MaxRunning
              /\ jobs' = [j \in JobNames |->
                            IF j \in ran THEN [last_run |-> now] ELSE jobs[j]]
              /\ spawned' = [j \in JobNames |-> IF j \in ran THEN 1 ELSE 0]
              /\ running' = [j \in JobNames |->
                               IF j \in ran THEN CreateTask(running, j)[j]
                               ELSE running[j]]
              /\ callback_error' = f
    /\ last_check' = now
    /\ UNCHANGED <<now, gatherVars, scoreVars, recoveryVars, agentVars, leadgenVars, keyVars, cronVars, qualifyVars>>

(***************************************************************************)
(* _autonomous_lead_generation and the decision engine's lead targets      *)
(***************************************************************************)
MaxLeadCycles == 2   \* lead generation invocations in flight at once

LeadSlots == 1..MaxLeadCycles

\* what the LLM collaborator does when it is asked: the request raises, the
\* content is not JSON, or the content is a JSON object of targets
LLMOutcomes == {"raises", "unparsable", "targets"}

\* line 421
DefaultTargets == [apollo |-> 25, linkedin |-> 15, referrals |-> 5, inbound |-> 3]

\* targets an LLM answer can hold
LLMTargets == [apollo |-> 40, linkedin |-> 20, referrals |-> 10, inbound |-> 5]

\* lines 395-421, run to the end: the request of lines 410-415 is outside the
\* try of line 417, only json.loads is inside it
calculate_optimal_lead_targets(llm) ==
    IF llm = "raises" THEN [status |-> "raised", targets |-> <<>>]
    ELSE IF llm = "unparsable" THEN [status |-> "returned", targets |-> DefaultTargets]
    ELSE [status |-> "returned", targets |-> LLMTargets]

\* line 138: the async method is called without await, which runs none of
\* its body and gives a coroutine object
CallWithoutAwait(llm) == [t |-> "coroutine", targets |-> <<>>]

\* optimal_targets['apollo'] (line 142): a coroutine object has no []
Subscriptable(v) == v.t = "dict"

Unset == [t |-> "unset", targets |-> <<>>]

LeadIdle ==
    [pc |-> "idle", llm |-> "none", optimal_targets |-> Unset,
     err |-> "none", outcome |-> "none"]
LeadDone(how) == [LeadIdle EXCEPT !.pc = "done", !.outcome = how]

LeadInit == leadgen = [i \in LeadSlots |-> LeadIdle]

\* a trigger calls _autonomous_lead_generation (line 131) while the LLM
\* collaborator is in one of its conditions; the invocation takes the lowest
\* slot not in flight
StartLeadGeneration(i) ==
    /\ leadgen[i].pc \in {"idle", "done"}
    /\ \A k \in LeadSlots : k < i => leadgen[k].pc \notin {"idle", "done"}
    /\ \E llm \in LLMOutcomes :
          leadgen' = [leadgen EXCEPT ![i] =
                        [LeadIdle EXCEPT !.pc = "get_conversion_patterns", !.llm = llm]]
    /\ UNCHANGED <<scoreVars, recoveryVars, gatherVars, schedVars, agentVars, keyVars, cronVars, qualifyVars>>

\* line 137: the conversion data is fetched, or the fetch raises
GetConversionPatterns(i) ==
    /\ leadgen[i].pc = "get_conversion_patterns"
    /\ \/ leadgen' = [leadgen EXCEPT ![i].pc = "calculate_targets"]
       \/ leadgen' = [leadgen EXCEPT ![i].pc = "except", ![i].err = "conversion"]
    /\ UNCHANGED <<scoreVars, recoveryVars, gatherVars, schedVars, agentVars, keyVars, cronVars, qualifyVars>>

\* line 138
CalculateLeadTargets(i) ==
    /\ leadgen[i].pc = "calculate_targets"
    /\ leadgen' = [leadgen EXCEPT ![i].pc = "lead_tasks",
                                  ![i].optimal_targets = CallWithoutAwait(leadgen[i].llm)]
    /\ UNCHANGED <<scoreVars, recoveryVars, gatherVars, schedVars, agentVars, keyVars, cronVars, qualifyVars>>

\* lines 141-146: the four channel coroutines are built from the targets;
\* the first subscript raises TypeError when the targets have no []
BuildLeadTasks(i) ==
    /\ leadgen[i].pc = "lead_tasks"
    /\ leadgen' = [leadgen EXCEPT ![i].pc =
                        IF Subscriptable(leadgen[i].optimal_targets)
                        THEN "gather" ELSE "except",
                                  ![i].err =
                        IF Subscriptable(leadgen[i].optimal_targets)
                        THEN "none" ELSE "TypeError"]
    /\ UNCHANGED <<scoreVars, recoveryVars, gatherVars, schedVars, agentVars, keyVars, cronVars, qualifyVars>>

\* lines 163-164: the handler call returns, or it raises and the exception
\* leaves the cycle method
HandleLeadGenerationError(i) ==
    /\ leadgen[i].pc = "except"
    /\ \/ leadgen' = [leadgen EXCEPT ![i] = LeadDone("handled")]
       \/ leadgen' = [leadgen EXCEPT ![i] = LeadDone("raised")]
    /\ UNCHANGED <<scoreVars, recoveryVars, gatherVars, schedVars, agentVars, keyVars, cronVars, qualifyVars>>

(***************************************************************************)
(* The cron endpoints of api/main.py                                       *)
(***************************************************************************)
\* main.py lines 43-47, 60-65, 77-80: the cycles each background task runs,
\* one asyncio.run after the other
CronCycles ==
    [ hourly |-> <<"_autonomous_lead_generation", "_autonomous_client_management">>,
      daily |-> <<"_autonomous_revenue_cycle", "_autonomous_content_pipeline",
                  "_autonomous_opportunity_hunting">>,
      weekly |-> <<"_weekly_strategic_briefing">> ]

Triggers == DOMAIN CronCycles

\* trigger: the endpoint called; pos: the cycle the task is in; started: the
\* cycles it has started; cycle: where a cycle other than the revenue and
\* lead generation cycles is; state: where the background task is
CronIdle ==
    [trigger |-> "none", pos |-> 0, started |-> 0, cycle |-> "none", state |-> "idle"]

CronInit == cron = CronIdle

\* the cycle the background task is in
CurrentCycle == CronCycles[cron.trigger][cron.pos]

\* asyncio.run(orchestrator.<cycle>()) starts the cycle named c
StartsCycle(c) ==
    /\ inv' = [inv EXCEPT ![1] =
                 IF c = "_autonomous_revenue_cycle"
                 THEN [IdleInv EXCEPT !.pc = "get_daily_revenue"] ELSE IdleInv]
    /\ \E llm \in LLMOutcomes :
          leadgen' = [leadgen EXCEPT ![1] =
                        IF c = "_autonomous_lead_generation"
                        THEN [LeadIdle EXCEPT !.pc = "get_conversion_patterns",
                                              !.llm = llm]
                        ELSE LeadIdle]

\* how cron.cycle starts for the cycle named c
OtherCycle(c) ==
    IF c \in {"_autonomous_revenue_cycle", "_autonomous_lead_generation"}
    THEN "none" ELSE "running"

\* main.py lines 43-45 (60-62, 77-79): the background task of a trigger
\* builds a new UltraAutomatedOrchestrator, whose AutoErrorRecovery starts
\* with no counters (lines 45 and 486-488), and runs its first cycle. One
\* background task runs at a time.
CronTrigger(t) ==
    /\ cron.state \in {"idle", "finished", "aborted"}
    /\ recovery_attempts' = <<>>
    /\ StartsCycle(CronCycles[t][1])
    /\ cron' = [trigger |-> t, pos |-> 1, started |-> 1,
                cycle |-> OtherCycle(CronCycles[t][1]), state |-> "running"]
    /\ UNCHANGED <<alerts, failures, scoreVars, gatherVars, schedVars, agentVars, keyVars, qualifyVars>>

\* lines 166-303: a content, opportunity, client or briefing cycle returns
OtherCycleReturns ==
    /\ cron.state = "running" /\ cron.cycle = "running"
    /\ cron' = [cron EXCEPT !.cycle = "returned"]
    /\ UNCHANGED <<scoreVars, recoveryVars, gatherVars, schedVars, agentVars,
                   leadgenVars, keyVars, qualifyVars>>

\* lines 166-303: its except clause calls a handler, and the handler call
\* raises out of the cycle
OtherCycleRaises ==
    /\ cron.state = "running" /\ cron.cycle = "running"
    /\ cron' = [cron EXCEPT !.cycle = "raised"]
    /\ UNCHANGED <<scoreVars, recoveryVars, gatherVars, schedVars, agentVars,
                   leadgenVars, keyVars, qualifyVars>>

\* how the cycle the background task is in has ended, "no" while it runs
CycleEnded ==
    IF CurrentCycle = "_autonomous_revenue_cycle"
    THEN IF inv[1].pc # "done" THEN "no"
         ELSE IF inv[1].outcome = "raised" THEN "raised" ELSE "returned"
    ELSE IF CurrentCycle = "_autonomous_lead_generation"
    THEN IF leadgen[1].pc # "done" THEN "no"
         ELSE IF leadgen[1].outcome = "raised" THEN "raised" ELSE "returned"
    ELSE IF cron.cycle = "running" THEN "no" ELSE cron.cycle

\* main.py lines 46-47 (63-65): asyncio.run returns and the next statement
\* runs, or asyncio.run raises the cycle's exception and the function ends
AfterCycle(ended, pos, trigger) ==
    IF ended = "raised" THEN "aborted"
    ELSE IF pos < Len(CronCycles[trigger]) THEN "next" ELSE "finished"

\* the asyncio.run of the current cycle is over
CronAdvance ==
    /\ cron.state = "running"
    /\ CycleEnded # "no"
    /\ LET after == AfterCycle(CycleEnded, cron.pos, cron.trigger)
       IN  IF after = "next"
           THEN /\ StartsCycle(CronCycles[cron.trigger][cron.pos + 1])
                /\ cron' = [cron EXCEPT
                              !.pos = @ + 1, !.started = @ + 1,
                              !.cycle = OtherCycle(CronCycles[cron.trigger][cron.pos + 1])]
           ELSE /\ inv' = [inv EXCEPT ![1] = IdleInv]
                /\ leadgen' = [leadgen EXCEPT ![1] = LeadIdle]
                /\ cron' = [cron EXCEPT !.cycle = "none", !.state = after]
    /\ UNCHANGED <<recovery_attempts, alerts, failures, scoreVars, gatherVars,
                   schedVars, agentVars, keyVars, qualifyVars>>

(***************************************************************************)
(* The agents' execute_task                                                *)
(***************************************************************************)
MaxCalls == 2        \* execute_task calls in flight at once

\* the task types each execute_task has a branch for
HandledTaskTypes ==
    [ senanu_kimono |-> {"process_kimono_order", "schedule_styling", "follow_up_styling"},
      podcast_booking |-> {"find_podcasts", "pitch_podcast"},
      newsletter |-> {"create_newsletter", "send_newsletter"},
      grant_agent |-> {"find_grants", "apply_grant"},
      investor_relations |-> {"identify_investors", "create_pitch_deck"} ]

Agents == DOMAIN HandledTaskTypes

\* the keys of the dict each branch returns
ResultKeys ==
    [ process_kimono_order |-> {"order", "status"},
      schedule_styling |-> {"session"},
      follow_up_styling |-> {"followup"},
      find_podcasts |-> {"podcasts_found", "podcasts"},
      pitch_podcast |-> {"pitches_sent", "results"},
      create_newsletter |-> {"newsletter"},
      send_newsletter |-> {"sent"},
      find_grants |-> {"grants_found", "grants"},
      apply_grant |-> {"application"},
      identify_investors |-> {"investors"},
      create_pitch_deck |-> {"pitch_deck"} ]

\* the task types handed to an agent: its own, one of another agent, and one
\* no agent knows
TaskTypesFor(a) ==
    HandledTaskTypes[a]
    \cup {"unknown_task"}
    \cup {IF a = "grant_agent" THEN "find_podcasts" ELSE "find_grants"}

\* the calls that suspend: an agent with a task type it has a branch for
CallKinds == {<<a, t>> : a \in Agents, t \in DOMAIN ResultKeys} \cap
             {k \in Agents \X DOMAIN ResultKeys : k[2] \in HandledTaskTypes[k[1]]}

PyNone == [kind |-> "None", keys |-> {}, exc |-> "none"]
PyDict(keys) == [kind |-> "dict", keys |-> keys, exc |-> "none"]
PyRaise(e) == [kind |-> "raise", keys |-> {}, exc |-> e]

NoCall == [agent |-> "none", task_type |-> "none", result |-> PyNone]
Finished(a, t, r) == [agent |-> a, task_type |-> t, result |-> r]

InFlight == SumOver(calls, CallKinds)

AgentInit ==
    /\ agent_status = [a \in Agents |-> "pending"]
    /\ calls = [k \in CallKinds |-> 0]
    /\ returned = NoCall

\* no call stands between its except clause and its finally clause; the two
\* run without a suspension point, so nothing else runs in between
NoneUnwinding == \A a \in Agents : agent_status[a] # "error"

\* lines 31-46: no branch matches, the try block ends without a return and
\* execute_task returns None
Unmatched(a, t) == PyNone

\* lines 29-46: execute_task up to its first await, or, when no branch matches
\* the task type, to its end
ExecuteTask(a, t) ==
    /\ NoneUnwinding
    /\ t \in TaskTypesFor(a)
    /\ IF t \in HandledTaskTypes[a]
       THEN /\ InFlight < MaxCalls
            /\ agent_status' = [agent_status EXCEPT ![a] = "working"]
            /\ calls' = [calls EXCEPT ![<<a, t>>] = @ + 1]
            /\ UNCHANGED returned
       ELSE /\ agent_status' = [agent_status EXCEPT ![a] = "completed"]
            /\ returned' = Finished(a, t, Unmatched(a, t))
            /\ UNCHANGED calls
    /\ UNCHANGED <<scoreVars, recoveryVars, gatherVars, schedVars, leadgenVars, keyVars, cronVars, qualifyVars>>

\* the awaited helper returns: the branch returns its dict, finally runs
HelperReturns(a, t) ==
    /\ NoneUnwinding
    /\ <<a, t>> \in CallKinds
    /\ calls[<<a, t>>] > 0
    /\ calls' = [calls EXCEPT ![<<a, t>>] = @ - 1]
    /\ returned' = Finished(a, t, PyDict(ResultKeys[t]))
    /\ agent_status' = [agent_status EXCEPT ![a] = "completed"]
    /\ UNCHANGED <<scoreVars, recoveryVars, gatherVars, schedVars, leadgenVars, keyVars, cronVars, qualifyVars>>

\* lines 42-44: return {"error": str(e)}
ExceptResult(e) == PyDict({"error"})

\* the awaited helper raises: the except clause sets ERROR and evaluates its
\* return statement (lines 42-44)
HelperRaises(a, t) ==
    /\ NoneUnwinding
    /\ <<a, t>> \in CallKinds
    /\ calls[<<a, t>>] > 0
    /\ calls' = [calls EXCEPT ![<<a, t>>] = @ - 1]
    /\ returned' = Finished(a, t, ExceptResult("Exception"))
    /\ agent_status' = [agent_status EXCEPT ![a] = "error"]
    /\ UNCHANGED <<scoreVars, recoveryVars, gatherVars, schedVars, leadgenVars, keyVars, cronVars, qualifyVars>>

\* lines 45-46: the finally clause runs after the except clause and sets
\* COMPLETED before the value reaches the caller
FinallyAfterExcept(a) ==
    /\ agent_status[a] = "error"
    /\ agent_status' = [agent_status EXCEPT ![a] = "completed"]
    /\ UNCHANGED <<calls, returned, scoreVars, recoveryVars, gatherVars, schedVars, leadgenVars, keyVars, cronVars, qualifyVars>>

(***************************************************************************)
(* Specifications                                                          *)
(***************************************************************************)
Init ==
    /\ ScoreIdle
    /\ RecoveryInit
    /\ GatherInit
    /\ SchedInit
    /\ AgentInit
    /\ LeadInit
    /\ KeyIdle
    /\ CronInit
    /\ QualifyIdle

Next ==
    \E i \in Slots :
        \/ StartRevenueCycle(i)
        \/ GetDailyRevenue(i)
        \/ RevenueStep(i)
        \/ HandleRevenueError(i)
        \/ AlternativeRevenueMethods(i)
        \/ SendManualInterventionAlert(i)

Spec == Init /\ [][Next]_vars

InitScore ==
    /\ ScoreInit
    /\ RecoveryInit
    /\ GatherInit
    /\ SchedInit
    /\ AgentInit
    /\ LeadInit
    /\ KeyIdle
    /\ CronInit
    /\ QualifyIdle

NextScore == ScoreLead
SpecScore == InitScore /\ [][NextScore]_vars

NextGather ==
    \/ StartAutonomousOperation
    \/ \E c \in GatherMembers : CycleReturns(c) \/ CycleRaises(c)
    \/ GatherResolves
    \/ RunCancelsRest

SpecGather == Init /\ [][NextGather]_vars

NextSched ==
    \/ StartAutonomousOperation
    \/ Tick
    \/ RunPending
    \/ \E j \in JobNames : TaskFinishes(j)

SpecSched == Init /\ [][NextSched]_vars

\* what the code's scheduling guarantees: the entry point runs, time passes
\* and every created task runs to its end; nothing in the program calls
\* run_pending, so nothing is assumed of RunPending
SpecSchedLive ==
    /\ SpecSched
    /\ WF_vars(StartAutonomousOperation)
    /\ WF_vars(Tick)
    /\ \A j \in JobNames : WF_vars(TaskFinishes(j))

InitKey ==
    /\ ScoreIdle
    /\ RecoveryInit
    /\ GatherInit
    /\ SchedInit
    /\ AgentInit
    /\ LeadInit
    /\ KeyInit
    /\ CronInit
    /\ QualifyIdle

NextKey == DeriveKeys
SpecKey == InitKey /\ [][NextKey]_vars

NextLead ==
    \E i \in LeadSlots :
        \/ StartLeadGeneration(i)
        \/ GetConversionPatterns(i)
        \/ CalculateLeadTargets(i)
        \/ BuildLeadTasks(i)
        \/ HandleLeadGenerationError(i)

SpecLead == Init /\ [][NextLead]_vars

\* the scheduler with a callback that raises; the tasks created stay running
NextSchedFaulty ==
    \/ StartAutonomousOperation
    \/ Tick
    \/ RunPending
    \/ RunPendingCallbackRaises

SpecSchedFaulty == Init /\ [][NextSchedFaulty]_vars

\* the cycles as the background task of a cron trigger runs them; the
\* counters of a new orchestrator never pass 1, so no alert is ever sent
NextCron ==
    \/ \E t \in Triggers : CronTrigger(t)
    \/ GetDailyRevenue(1)
    \/ RevenueStep(1)
    \/ HandleRevenueError(1)
    \/ AlternativeRevenueMethods(1)
    \/ GetConversionPatterns(1)
    \/ CalculateLeadTargets(1)
    \/ BuildLeadTasks(1)
    \/ HandleLeadGenerationError(1)
    \/ OtherCycleReturns
    \/ OtherCycleRaises
    \/ CronAdvance

SpecCron == Init /\ [][NextCron]_vars

InitQualify ==
    /\ ScoreIdle
    /\ RecoveryInit
    /\ GatherInit
    /\ SchedInit
    /\ AgentInit
    /\ LeadInit
    /\ KeyIdle
    /\ CronInit
    /\ QualifyInit

NextQualify ==
    \/ AutoQualifyLeads(1)
    \/ ResearchReturns(1)
    \/ ResearchRaises(1)

SpecQualify == InitQualify /\ [][NextQualify]_vars

InitQualifyOverlap ==
    /\ ScoreIdle
    /\ RecoveryInit
    /\ GatherInit
    /\ SchedInit
    /\ AgentInit
    /\ LeadInit
    /\ KeyIdle
    /\ CronInit
    /\ QualifyOverlapInit

NextQualifyOverlap ==
    \E i \in QualifySlots :
        \/ AutoQualifyLeads(i)
        \/ ResearchReturns(i)
        \/ ResearchRaises(i)

SpecQualifyOverlap == InitQualifyOverlap /\ [][NextQualifyOverlap]_vars

NextAgent ==
    \/ \E a \in Agents : \E t \in DOMAIN ResultKeys \cup {"unknown_task"} :
          \/ ExecuteTask(a, t)
          \/ HelperReturns(a, t)
          \/ HelperRaises(a, t)
    \/ \E a \in Agents : FinallyAfterExcept(a)

SpecAgent == Init /\ [][NextAgent]_vars

(***************************************************************************)
(* Properties of the recovery policy (specification Spec)                  *)
(***************************************************************************)
\* two messages are of one error class when their first 50 characters agree
SameClass(m1, m2) == Slice(m1, 50) = Slice(m2, 50)

\* failures of the class of m handled so far, by the history f
ClassFailures(f, m) == SumOver(f, {x \in Msgs : SameClass(x, m)})

\* the counter the policy keeps for the class of m, 0 when it keeps none
CounterIn(attempts, m) ==
    IF ErrorKey(m) \in DOMAIN attempts THEN attempts[ErrorKey(m)] ELSE 0

\* this step is invocation i's handler counting its failure
Handles(i) == inv[i].pc = "except" /\ inv'[i].pc # "except"

\* this step is invocation i completing without having raised
CompletesNormally(i) ==
    /\ inv[i].pc \in {"get_daily_revenue", "revenue_step"}
    /\ inv'[i].pc = "done" /\ inv'[i].outcome = "complete"

\* C1: for one error class, the 1st, 2nd and 3rd handled failure take the
\* fallback branch and do not escalate; the 4th and every later one escalate.
C1_EscalatesOnFourthFailure ==
    [][\A i \in Slots :
          Handles(i) =>
            LET n == ClassFailures(failures', inv[i].err)
            IN  /\ n <= 3 => inv'[i].pc = "alternative"
                /\ n >= 4 => inv'[i].pc = "alert"]_vars

\* an invocation is escalating and its class has failed exactly 4 times
C1_Witness ==
    \E i \in Slots :
        inv[i].pc = "alert" /\ ClassFailures(failures, inv[i].err) = 4

\* C8: handling a failure of one error class leaves the counter of every
\* other error class as it was.
C8_KeysIndependent ==
    [][\A i \in Slots :
          Handles(i) =>
            \A m \in Msgs :
                ~SameClass(m, inv[i].err) =>
                    CounterIn(recovery_attempts', m) = CounterIn(recovery_attempts, m)]_vars

\* failures of two classes have been counted, in different numbers
C8_Witness ==
    /\ CounterIn(recovery_attempts, Msg502) = 2
    /\ CounterIn(recovery_attempts, MsgLocked) = 1

\* C9: a cycle invocation that completes without raising leaves every counter
\* unchanged, and the counters change only in a step of the failure handler.
C9_SuccessLeavesCounters ==
    [][/\ \A i \in Slots :
            CompletesNormally(i) => recovery_attempts' = recovery_attempts
       /\ recovery_attempts' # recovery_attempts => \E i \in Slots : Handles(i)]_vars

\* an invocation completed normally while a counter stands above 0
C9_Witness ==
    /\ \E i \in Slots : inv[i].pc = "done" /\ inv[i].outcome = "complete"
    /\ \E k \in DOMAIN recovery_attempts : recovery_attempts[k] > 0

\* escalations decided so far: the failures of each class beyond the third
Escalations ==
    LET over(m) == IF ClassFailures(failures, m) > 3
                   THEN ClassFailures(failures, m) - 3 ELSE 0
    IN  over(Msg502) + over(MsgLocked)

\* C10: every failure that pushed a counter above the ceiling has its alert
\* delivered (or is about to send it), and no escalation ends in an exception.
C10_AlertAlwaysDelivered ==
    /\ Escalations = Len(alerts) + Cardinality({i \in Slots : inv[i].pc = "alert"})
    /\ \A i \in Slots : inv[i].pc = "done" => inv[i].outcome # "raised"

\* C12: no counter ever decreases or disappears; a handled failure raises the
\* counter of its class by exactly 1, and no other step changes a counter.
C12_CounterMonotone ==
    [][/\ \A k \in DOMAIN recovery_attempts :
            /\ k \in DOMAIN recovery_attempts'
            /\ recovery_attempts'[k] >= recovery_attempts[k]
       /\ \A i \in Slots :
            Handles(i) =>
                CounterIn(recovery_attempts', inv[i].err)
                    = CounterIn(recovery_attempts, inv[i].err) + 1
       /\ (\A i \in Slots : ~Handles(i)) => recovery_attempts' = recovery_attempts]_vars

\* a handler has just counted the third failure of a class
C12_Witness ==
    \E i \in Slots : \E k \in DOMAIN recovery_attempts :
        inv[i].pc = "alternative" /\ recovery_attempts[k] = 3

\* C13: once the counter of a class is above the ceiling it stays above it,
\* and every later failure of that class escalates, whatever happened to
\* other classes in between.
C13_EscalationPermanent ==
    [][\A m \in Msgs :
          CounterIn(recovery_attempts, m) > max_recovery_attempts =>
            /\ CounterIn(recovery_attempts', m) > max_recovery_attempts
            /\ \A i \in Slots :
                  Handles(i) /\ SameClass(inv[i].err, m) => inv'[i].pc = "alert"]_vars

\* a class that escalated on its 4th failure escalates again on its 5th
C13_Witness ==
    \E i \in Slots :
        inv[i].pc = "alert" /\ ClassFailures(failures, inv[i].err) = 5

\* C17: every invocation of the cycle method returns normally, also when its
\* recovery handler escalated or failed.
C17_NoExceptionLeavesCycle ==
    \A i \in Slots :
        inv[i].pc = "done" =>
            inv[i].outcome \in {"complete", "recovered", "recovery_failed", "alerted"}

\* C18: a handled failure whose counter is within the ceiling goes to the
\* fallback and sends no alert; the fallback is attempted once, and whether
\* it returns or raises the handler returns and no alert is sent.
C18_OneFallbackNoAlert ==
    [][\A i \in Slots :
          /\ Handles(i) /\ CounterIn(recovery_attempts', inv[i].err) <= max_recovery_attempts
                => inv'[i].pc = "alternative" /\ alerts' = alerts
          /\ inv[i].pc = "alternative" /\ inv'[i] # inv[i]
                => /\ inv'[i] \in {Done("recovered"), Done("recovery_failed")}
                   /\ alerts' = alerts]_vars

\* a fallback attempt failed, the invocation returned and no alert was sent
C18_Witness ==
    /\ \E i \in Slots : inv[i] = Done("recovery_failed")
    /\ alerts = <<>>

\* C23: whatever the interleaving of the invocations at their awaits, after
\* each handler call the counter of its class equals the number of failures
\* of that class handled so far, and the call escalates exactly when that
\* number is above the ceiling; so N calls leave the counter at N and
\* max(0, N - 3) of them escalate.
C23_NoLostIncrement ==
    [][\A i \in Slots :
          Handles(i) =>
            LET n == ClassFailures(failures', inv[i].err)
            IN  /\ CounterIn(recovery_attempts', inv[i].err) = n
                /\ (inv'[i].pc = "alert") = (n > max_recovery_attempts)
                /\ (inv'[i].pc = "alternative") = (n <= max_recovery_attempts)]_vars

\* two calls for one key overlapped: both have counted and both escalated,
\* as the 4th and the 5th failure of the class
C23_Witness ==
    /\ \A i \in {1, 2} : inv[i].pc = "alert"
    /\ SameClass(inv[1].err, inv[2].err)
    /\ CounterIn(recovery_attempts, inv[1].err) = 5

\* this step sends an alert
AlertSent == alerts' # alerts

\* C24: an alert is sent only by an invocation on the escalation path, whose
\* failure raised the counter of its key above the ceiling; no more alerts
\* have been sent than failures have escalated.
C24_AlertOnlyOnEscalation ==
    [][AlertSent =>
          /\ \E i \in Slots :
                /\ inv[i].pc = "alert"
                /\ CounterIn(recovery_attempts, inv[i].err) > max_recovery_attempts
                /\ alerts' = Append(alerts, AlertMessage("revenue", inv[i].err, now))
                /\ inv'[i] = Done("alerted")
          /\ Len(alerts') <= Escalations]_vars

\* an alert was sent after a 4th failure, and a later invocation completed
\* without one
C24_Witness ==
    /\ Len(alerts) = 1
    /\ \E i \in Slots : inv[i].pc = "done" /\ inv[i].outcome = "complete"
    /\ \E i \in Slots : inv[i] = Done("alerted")

\* C30: the revenue is fetched first; at or above the target the cycle
\* completes with no revenue action; below it the four actions run in their
\* order, each after the one before returned; after a failure no action of
\* that invocation runs.
C30_StepsSequentialAndGated ==
    [][\A i \in Slots :
          inv'[i] # inv[i] =>
            /\ inv[i].pc = "get_daily_revenue" =>
                  \/ inv'[i].pc = "except"
                  \/ /\ inv'[i].revenue >= daily_revenue_target
                     /\ inv'[i] = Complete(inv'[i].revenue)
                  \/ /\ inv'[i].revenue \in RevenueValues
                     /\ inv'[i].revenue < daily_revenue_target
                     /\ inv'[i].pc = "revenue_step" /\ inv'[i].step = 1
            /\ inv'[i].pc = "revenue_step" =>
                  /\ inv'[i].revenue < daily_revenue_target
                  /\ \/ inv[i].pc = "get_daily_revenue" /\ inv'[i].step = 1
                     \/ /\ inv[i].pc = "revenue_step"
                        /\ inv'[i].step = inv[i].step + 1
                        /\ inv'[i].step <= Len(RevenueSteps)
            /\ inv[i].pc = "revenue_step" /\ inv'[i].pc = "done" =>
                  inv[i].step = Len(RevenueSteps) /\ inv'[i] = Complete(inv[i].revenue)
            /\ inv[i].pc \in {"except", "alternative", "alert"} =>
                  inv'[i].pc \in {"alternative", "alert", "done"}]_vars

\* one invocation completed at the target without a revenue action while
\* another awaits the fourth action
C30_Witness ==
    /\ \E i \in Slots : inv[i] = Complete(daily_revenue_target)
    /\ \E i \in Slots : inv[i].pc = "revenue_step" /\ inv[i].step = Len(RevenueSteps)

\* the two messages have the same characters at each of the first n places
AgreeOnFirst(m1, m2, n) ==
    \A p \in 1..n :
        IF p <= Len(m1) /\ p <= Len(m2) THEN m1[p] = m2[p]
        ELSE p > Len(m1) /\ p > Len(m2)

\* C27: the key is the domain prefix followed by the first 50 characters of
\* the message, so two failures of the revenue domain have the same key, and
\* with it the same counter, exactly when their messages agree on the first
\* 50 characters.
C27_KeyIsDomainAndFirstFifty ==
    error_keys # NoKeys =>
        /\ (error_keys[1] = error_keys[2]) = AgreeOnFirst(error_messages[1], error_messages[2], 50)
        /\ \A k \in {1, 2} :
              /\ Len(error_keys[k]) = 8 + Min(50, Len(error_messages[k]))
              /\ SubSeq(error_keys[k], 1, 8) = <<"r", "e", "v", "e", "n", "u", "e", "_">>
              /\ \A p \in 1..(Len(error_keys[k]) - 8) : error_keys[k][8 + p] = error_messages[k][p]

\* two messages that differ only after character 50 got one key
C27_Witness ==
    /\ error_messages = <<Msg502, Msg503>>
    /\ error_keys # NoKeys
    /\ error_keys[1] = error_keys[2]

(***************************************************************************)
(* Properties of the lead scorer (specification SpecScore)                 *)
(***************************************************************************)
Scored == score.status # "pending"

\* what the rules say of the fields of a lead, from the labelled cases
RefTitle(l) ==
    IF "title" \in DOMAIN l /\ \E c \in TitleCases : c.text = l.title.s /\ c.senior
    THEN 35 ELSE 0
RefIndustry(l) ==
    IF "industry" \in DOMAIN l
       /\ \E c \in IndustryCases : c.text = l.industry.s /\ c.target
    THEN 20 ELSE 0
RefActivity(l) ==
    IF "recent_activity" \in DOMAIN l /\ l.recent_activity = PyBool(TRUE)
    THEN 20 ELSE 0
RefSize(max) == IF max >= 200 THEN 25 ELSE IF max >= 50 THEN 15 ELSE 0

HasSize(l, text) == "company_size" \in DOMAIN l /\ l.company_size = PyStr(text)

\* title "VP of Engineering", size "50-500", industry "SaaS", recent activity
AllFourLead ==
    MkLead(PyStr(<<"V", "P", " ", "o", "f", " ", "E", "n", "g", "i", "n", "e", "e", "r", "i", "n", "g">>),
           PyStr(<<"5", "0", "-", "5", "0", "0">>),
           PyStr(<<"S", "a", "a", "S">>), PyBool(TRUE))

\* C5: a score that calculate_lead_score returns lies in [0.0, 1.0].
C5_ScoreInUnitInterval ==
    score.status = "returned" => 0 <= score.value /\ score.value <= 100

\* a lead was scored 0.0
C5_Witness == score.status = "returned" /\ score.value = 0

\* C6: with a well-formed "min-max" size the score is the sum of the rule
\* contributions capped at 1.0, the size rule reading the upper bound only;
\* the lead matching all four rules scores exactly 1.0.
C6_ScoreIsCappedSum ==
    /\ \A sc \in WellFormedSizes :
          Scored /\ HasSize(lead, sc.text) =>
              score = Returned(Min(100, RefTitle(lead) + RefSize(sc.max)
                                        + RefIndustry(lead) + RefActivity(lead)))
    /\ Scored /\ lead = AllFourLead => score = Returned(100)

\* the lead matching all four rules was scored 1.0
C6_Witness == lead = AllFourLead /\ score = Returned(100)

\* C7: with a malformed company size the scorer does not raise and the size
\* rule contributes 0.
C7_MalformedSizeScoresZero ==
    \A mc \in MalformedSizes :
        Scored /\ HasSize(lead, mc.text) =>
            score = Returned(Min(100, RefTitle(lead) + RefIndustry(lead)
                                      + RefActivity(lead)))

(***************************************************************************)
(* Properties of _autonomous_lead_generation (specification SpecLead)      *)
(***************************************************************************)
\* C15: in a lead generation cycle during which the LLM collaborator fails or
\* answers with unparsable output, the targets step does not send the cycle to
\* its except clause, and channel generation starts from the default targets.
C15_DefaultTargetsOnDecisionFailure ==
    \A i \in LeadSlots :
        leadgen[i].llm \in {"raises", "unparsable"} =>
            /\ leadgen[i].pc = "except" => leadgen[i].err = "conversion"
            /\ leadgen[i].pc = "gather" =>
                  leadgen[i].optimal_targets = [t |-> "dict", targets |-> DefaultTargets]

(***************************************************************************)
(* Properties of start_autonomous_operation (specification SpecGather)     *)
(***************************************************************************)
\* C2: when a gathered cycle raises, the entry point does not raise and no
\* other cycle is kept from completing.
C2_CyclesIsolated ==
    /\ entry # "raised"
    /\ \A c \in GatherMembers : cycles[c] # "cancelled"

(***************************************************************************)
(* Properties of the scheduler (specification SpecSched)                   *)
(***************************************************************************)
\* this step is a run_pending check
CheckStep ==
    /\ jobs # <<>> /\ jobs' # <<>>
    /\ now' = now /\ last_check' = now
    /\ \A j \in JobNames : running'[j] >= running[j]

\* the interval of job j has elapsed since it last ran
Elapsed(j) == now - jobs[j].last_run >= JobPeriod(j)

C19_DueJobEventuallySpawned ==
    \A j \in JobNames :
        (jobs # <<>> /\ Elapsed(j)) ~> (jobs # <<>> /\ spawned[j] = 1)

RaisesIn(f) == CheckStep /\ callback_error = "none" /\ callback_error' = f

\* C22: in a check during which the callback of a job raises, every other due
\* job is fired, and the failing job stays registered.
C22_CallbackFailureContained ==
    [][\A f \in JobNames :
          RaisesIn(f) =>
            \A j \in JobNames :
                /\ j \in DOMAIN jobs'
                /\ Elapsed(j) /\ j # f => spawned'[j] = 1 /\ jobs'[j].last_run = now]_vars

ScoresSeventy(l) ==
    LET s == calculate_lead_score(l)
    IN  s.status = "returned" /\ s.value * 10 >= 7 * ScoreCap

\* the dict d without the two keys of the tagging
Untagged(d) == [k \in DOMAIN d \ {"ai_score", "auto_qualified"} |-> d[k]]

C25_CountersSpanTriggers ==
    [][Handles(1) /\ ClassFailures(failures', inv[1].err) >= 4
          => inv'[1].pc = "alert"]_vars

\* C26: a background task that is over, whatever its cycles did, has started
\* every cycle of its trigger.
C26_EveryListedCycleStarts ==
    cron.state \in {"finished", "aborted"} =>
        cron.started = Len(CronCycles[cron.trigger])

(***************************************************************************)
(* Properties of execute_task (specification SpecAgent)                    *)
(***************************************************************************)
\* C4: a finished call whose task type the agent has no branch for raised
\* HandlerNotFound to its caller.
C4_UnknownKindSignalsHandlerNotFound ==
    returned # NoCall /\ returned.task_type \notin HandledTaskTypes[returned.agent]
        => returned.result = PyRaise("HandlerNotFound")

\* C11: the status of an agent that has become error stays error (it is not
\* overwritten by completed), and it becomes error only from working.
C11_StatusOnlyForward ==
    [][\A a \in Agents :
          /\ agent_status[a] = "error" => agent_status'[a] = "error"
          /\ agent_status'[a] = "error" => agent_status[a] \in {"working", "error"}]_vars

\* this step is the except clause of a call of agent a
ExceptStep(a) == agent_status[a] # "error" /\ agent_status'[a] = "error"

\* C14: when the work inside execute_task raises, what the call hands to its
\* caller is a raised failure, not a returned value.
C14_FailureReachesCallerAsFailure ==
    [][\A a \in Agents :
          ExceptStep(a) => returned'.agent = a /\ returned'.result.kind = "raise"]_vars

====
